---- MODULE Spec2Model ----
(***************************************************************************)
(* zodkit: the six parse operations of src/lib/parsers.ts (and of its      *)
(* earlier variant, src/unnamed/part_001).  A call normalises a query      *)
(* string, a form body or a route-parameter mapping into one canonical     *)
(* mapping, adapts the schema descriptor, runs the validator and shapes    *)
(* the outcome (return value or raised error).                             *)
(***************************************************************************)
EXTENDS Integers, Sequences, FiniteSets, TLC

VARIABLES variant, call, used

vars == <<variant, call, used>>

(* ---------------------------------------------------------------- bounds *)

\* longest list of (key, value) pairs a query string / form body holds
MaxLen == 3

\* longest form body of two calls that run concurrently
MaxConcLen == 2

\* call slots
Calls == {1, 2}

\* request objects
Requests == {1, 2}

\* key names of the (key, value) pairs; "toString" is a name every object
\* literal inherits from Object.prototype
Keys == {"a", "b", "toString"}

\* values of the pairs: a numeral, a non-numeral, the empty string
Values == {"1", "test", ""}

\* names of route parameters; "params" is the attribute isRequestEvent reads
RouteKeys == {"a", "b", "params"}

\* property names an empty object literal ({}) inherits
ProtoKeys == {"toString", "constructor"}

Variants == {"lib", "part_001"}

SearchOps == {"parseSearchParams", "parseSearchParamsSafe"}
FormOps == {"parseFormData", "parseFormDataSafe"}
RouteOps == {"parseRouteParams", "parseRouteParamsSafe"}
StrictOps == {"parseSearchParams", "parseFormData", "parseRouteParams"}
SafeOps == {"parseSearchParamsSafe", "parseFormDataSafe", "parseRouteParamsSafe"}
Ops == SearchOps \cup FormOps \cup RouteOps

(* ------------------------------------------------------ JavaScript values *)

\* every value has the same record shape; t is its runtime type
Undef == [t |-> "undefined", s |-> "", n |-> 0, a |-> <<>>, o |-> <<>>]
Str(x) == [t |-> "string", s |-> x, n |-> 0, a |-> <<>>, o |-> <<>>]
Num(x) == [t |-> "number", s |-> "", n |-> x, a |-> <<>>, o |-> <<>>]
NaN == [t |-> "nan", s |-> "", n |-> 0, a |-> <<>>, o |-> <<>>]
Fn == [t |-> "function", s |-> "", n |-> 0, a |-> <<>>, o |-> <<>>]
Arr(xs) == [t |-> "array", s |-> "", n |-> 0, a |-> xs, o |-> <<>>]
Obj(props) == [t |-> "object", s |-> "", n |-> 0, a |-> <<>>, o |-> props]

\* ToBoolean
Truthy(v) ==
    CASE v.t = "undefined" -> FALSE
      [] v.t = "string" -> v.s # ""
      [] v.t = "number" -> v.n # 0
      [] v.t = "nan" -> FALSE
      [] OTHER -> TRUE

IsArray(v) == v.t = "array"

\* instanceof Object
InstanceOfObject(v) == v.t \in {"object", "array", "function"}

\* props[key] on an object literal: own property, else the inherited one
Get(props, key) ==
    IF key \in DOMAIN props THEN props[key]
    ELSE IF key \in ProtoKeys THEN Fn
    ELSE Undef

\* props[key] = v
Put(props, key, v) ==
    [k \in DOMAIN props \cup {key} |-> IF k = key THEN v ELSE props[k]]

(* ------------------------------------------------------- input sources *)

\* a FormData entry that is a file, not a string
File == [t |-> "file", s |-> "", n |-> 0, a |-> <<>>, o |-> <<>>]

\* a URLSearchParams (entries: <<key, string>>) or a FormData (entries:
\* <<key, value>>, value a string or a file)
Container(type, entries) ==
    [type |-> type, entries |-> entries, url |-> <<>>, body |-> <<>>,
     bodyOk |-> TRUE, params |-> <<>>, props |-> <<>>]

\* a RequestEvent: url.searchParams, the form data request.formData()
\* resolves to (bodyOk: whether it resolves at all), and params
RequestEvent(url, body, bodyOk, params) ==
    [type |-> "RequestEvent", entries |-> <<>>, url |-> url, body |-> body,
     bodyOk |-> bodyOk, params |-> params, props |-> <<>>]

\* a plain route-parameter mapping (RouteParams), props its own properties
RawMapping(props) ==
    [type |-> "Object", entries |-> <<>>, url |-> <<>>, body |-> <<>>,
     bodyOk |-> TRUE, params |-> <<>>, props |-> props]

\* the attribute read data.params
ParamsAttr(data) ==
    CASE data.type = "RequestEvent" -> Obj(data.params)
      [] data.type = "Object" -> Get(data.props, "params")
      [] OTHER -> Undef

\* string conversion applied by new URLSearchParams(init) to each value
ToUSVString(v) ==
    CASE v.t = "string" -> v.s
      [] v.t = "file" -> "[object File]"
      [] OTHER -> "undefined"

RECURSIVE LastWins(_, _)
LastWins(entries, i) ==
    IF i > Len(entries) THEN <<>>
    ELSE (IF \E j \in (i + 1)..Len(entries) : entries[j][1] = entries[i][1]
          THEN <<>>
          ELSE <<<<entries[i][1], ToUSVString(entries[i][2])>>>>)
         \o LastWins(entries, i + 1)

\* the form data turned into a plain object first (Object.fromEntries): a
\* repeated key keeps its last value only
URLSearchParamsOf_LastWins(entries) == LastWins(entries, 1)

\* new URLSearchParams(formData)
URLSearchParamsOf(entries) ==
    [i \in 1..Len(entries) |-> <<entries[i][1], ToUSVString(entries[i][2])>>]

(* ----------------------------------------------------- input normalizer *)

\* one iteration of the loop of getSearchParams
ParamsStep(params, key, value) ==
    LET current == Get(params, key)
    IN  IF Truthy(current) /\ IsArray(current)
        THEN Put(params, key, Arr(Append(current.a, Str(value))))
        ELSE Put(params, key,
                 IF Truthy(current) THEN Arr(<<current, Str(value)>>)
                 ELSE Str(value))

RECURSIVE ParamsFold(_, _, _)
ParamsFold(params, entries, i) ==
    IF i > Len(entries) THEN params
    ELSE ParamsFold(ParamsStep(params, entries[i][1], entries[i][2]), entries, i + 1)

\* the pairs getSearchParams iterates
SearchParamsOf(data) ==
    IF data.type = "URLSearchParams" THEN data.entries ELSE data.url

\* getSearchParams: the canonical mapping of a query-string source
getSearchParams(data) == ParamsFold(<<>>, SearchParamsOf(data), 1)

\* getFormData once the form data is at hand (formData: its entries)
getFormData(formData) ==
    getSearchParams(Container("URLSearchParams", URLSearchParamsOf(formData)))

\* isRequestEvent testing for the presence of params ('params' in data)
isRequestEvent_HasParams(data) == ParamsAttr(data).t # "undefined"

\* isRequestEvent testing params for truthiness (!!data.params)
isRequestEvent_Truthy(data) == Truthy(ParamsAttr(data))

isRequestEvent(data) == InstanceOfObject(ParamsAttr(data))

\* isRequestEvent(data) ? data.params : data
RouteParamsOf(data) ==
    IF isRequestEvent(data) THEN ParamsAttr(data)
    ELSE Obj(data.props)

(* -------------------------------------------------------- schema adapter *)

\* a field schema: z.number({coerce: true}) or z.string(); any other type
\* of a field stands for a value that is not a schema
FieldTypes == {"number", "string"}

Field(name, type) == [name |-> name, type |-> type]

\* a schema descriptor: a plain mapping of fields (form "shape") or an
\* object-schema built over them (form "instance"); shape is the list of
\* fields in the order given
Descriptor(form, shape) == [form |-> form, shape |-> shape]

\* schema instanceof ZodType
IsZodType(schema) == schema.form = "instance"

\* z.object(shape)
zobject(shape) == Descriptor("instance", shape)

\* getSchema wrapping the mapping as one field (z.object({ schema })), so that
\* none of its fields is a field of the object-schema
getSchema_WrapsAsField(schema) ==
    IF IsZodType(schema) THEN schema ELSE zobject(<<>>)

\* getSchema handing back whatever it is given
getSchema_Passthrough(schema) == schema

getSchema(schema) == IF IsZodType(schema) THEN schema ELSE zobject(schema.shape)

(* ------------------------------------------------------------- validator *)

Issue(path, message) == [path |-> path, message |-> message]

\* Number(v)
ToNumber(v) ==
    CASE v.t = "string" ->
            (CASE v.s = "" -> Num(0)
               [] v.s = "1" -> Num(1)
               [] OTHER -> NaN)
      [] v.t = "number" -> v
      [] OTHER -> NaN

\* the issues of one field
FieldIssues(field, v) ==
    CASE field.type = "number" ->
            IF ToNumber(v).t = "number" THEN <<>>
            ELSE <<Issue(<<field.name>>, "Expected number, received nan")>>
      [] field.type = "string" ->
            (CASE v.t = "string" -> <<>>
               [] v.t = "undefined" -> <<Issue(<<field.name>>, "Required")>>
               [] v.t = "array" ->
                    <<Issue(<<field.name>>, "Expected string, received array")>>
               [] OTHER ->
                    <<Issue(<<field.name>>, "Expected string, received function")>>)

\* the parsed value of one field
FieldValue(field, v) == IF field.type = "number" THEN ToNumber(v) ELSE v

RECURSIVE ObjectIssues(_, _, _)
ObjectIssues(shape, props, i) ==
    IF i > Len(shape) THEN <<>>
    ELSE FieldIssues(shape[i], Get(props, shape[i].name))
            \o ObjectIssues(shape, props, i + 1)

ShapeNames(shape) == {shape[i].name : i \in 1..Len(shape)}

ShapeField(shape, name) == CHOOSE f \in {shape[i] : i \in 1..Len(shape)} : f.name = name

\* schema.safeParse(data) of an object-schema
safeParse(schema, data) ==
    IF data.t # "object"
    THEN [success |-> FALSE,
          error |-> [issues |-> <<Issue(<<>>,
                        IF data.t = "undefined" THEN "Required"
                        ELSE "Expected object, received string")>>]]
    ELSE LET issues == ObjectIssues(schema.shape, data.o, 1)
         IN  IF issues # <<>>
             THEN [success |-> FALSE, error |-> [issues |-> issues]]
             ELSE [success |-> TRUE,
                   data |-> [nm \in ShapeNames(schema.shape) |->
                                FieldValue(ShapeField(schema.shape, nm),
                                           Get(data.o, nm))]]

\* the mapping has a value that is not a field schema
Malformed(shape) == \E i \in 1..Len(shape) : shape[i].type \notin FieldTypes

\* schema.safeParse(data) as the caller sees it: the validator calls each
\* field's _parse, which a non-schema value lacks, so a malformed
\* object-schema makes the call itself raise a TypeError
Validate(schema, data) ==
    IF data.t = "object" /\ Malformed(schema.shape)
    THEN [threw |-> TRUE, value |-> [class |-> "TypeError"]]
    ELSE [threw |-> FALSE, value |-> safeParse(schema, data)]

\* error.flatten().fieldErrors
fieldErrors(zodError) ==
    LET issues == zodError.issues
        named == {i \in 1..Len(issues) : Len(issues[i].path) > 0}
        Of(nm) == SelectSeq(issues,
                      LAMBDA x : IF Len(x.path) > 0 THEN x.path[1] = nm ELSE FALSE)
    IN  [nm \in {issues[i].path[1] : i \in named} |->
            [j \in 1..Len(Of(nm)) |-> Of(nm)[j].message]]

(* ---------------------------------------------------------- result shaper *)

\* @sveltejs/kit error(status, body): an HttpError
error(status, body) == [class |-> "HttpError", status |-> status, body |-> body]

\* @sveltejs/kit fail(status, data): an ActionFailure
fail(status, data) == [class |-> "ActionFailure", status |-> status, data |-> data]

Return(v) == [kind |-> "return", value |-> v]
Throw(e) == [kind |-> "throw", value |-> e]
NoOutcome == [kind |-> "none", value |-> <<>>]

\* error.flatten().formErrors
formErrors(zodError) ==
    LET top == SelectSeq(zodError.issues, LAMBDA x : Len(x.path) = 0)
    IN  [j \in 1..Len(top) |-> top[j].message]

\* parseSafe reading formErrors where the code reads fieldErrors
parseSafe_FormErrors(data, schema) ==
    LET r == Validate(getSchema(schema), data)
        result == r.value
    IN  IF r.threw THEN Throw(r.value)
        ELSE IF ~result.success
        THEN Return([success |-> FALSE,
                     errors |-> formErrors(result.error),
                     response |-> fail(400, [errors |-> formErrors(result.error)])])
        ELSE Return(result)

\* parse building the 400 error without raising it
parse_NoThrow(data, schema) ==
    LET r == Validate(getSchema(schema), data)
        result == r.value
    IN  IF r.threw THEN Throw(r.value)
        ELSE IF ~result.success THEN Return(Undef) ELSE Return(result.data)

\* parse returning the validator's result where the code returns result.data
parse_ReturnsResult(data, schema) ==
    LET r == Validate(getSchema(schema), data)
        result == r.value
    IN  IF r.threw THEN Throw(r.value)
        ELSE IF ~result.success
        THEN Throw(error(400, [message |-> "Parsing Failed",
                               errors |-> fieldErrors(result.error)]))
        ELSE Return(result)

\* parseSafe catching what the validator raises and reporting it as a failure
parseSafe_CatchesAll(data, schema) ==
    LET r == Validate(getSchema(schema), data)
        result == r.value
    IN  IF r.threw \/ ~result.success
        THEN LET errors == IF r.threw THEN <<>> ELSE fieldErrors(result.error)
             IN  Return([success |-> FALSE,
                         errors |-> errors,
                         response |-> fail(400, [errors |-> errors])])
        ELSE Return(result)

\* parseSafe passing the errors map itself to fail, not wrapped in {errors}
parseSafe_BareResponse(data, schema) ==
    LET r == Validate(getSchema(schema), data)
        result == r.value
    IN  IF r.threw THEN Throw(r.value)
        ELSE IF ~result.success
        THEN Return([success |-> FALSE,
                     errors |-> fieldErrors(result.error),
                     response |-> fail(400, fieldErrors(result.error))])
        ELSE Return(result)

\* src/lib/parsers.ts (an error the validator raises passes through: there
\* is no try/catch)
parseSafe(data, schema) ==
    LET r == Validate(getSchema(schema), data)
        result == r.value
    IN  IF r.threw THEN Throw(r.value)
        ELSE IF ~result.success
        THEN Return([success |-> FALSE,
                     errors |-> fieldErrors(result.error),
                     response |-> fail(400, [errors |-> fieldErrors(result.error)])])
        ELSE Return(result)

parse(data, schema) ==
    LET r == Validate(getSchema(schema), data)
        result == r.value
    IN  IF r.threw THEN Throw(r.value)
        ELSE IF ~result.success
        THEN Throw(error(400, [message |-> "Parsing Failed",
                               errors |-> fieldErrors(result.error)]))
        ELSE Return(result.data)

\* src/unnamed/part_001
parseSafe001(data, schema) ==
    LET r == Validate(getSchema(schema), data)
    IN  IF r.threw THEN Throw(r.value) ELSE Return(r.value)

parse001(data, schema) ==
    LET r == parseSafe001(data, schema)
        result == r.value
    IN  IF r.kind = "throw" THEN r
        ELSE IF ~result.success
        THEN Throw(fail(400, [errors |-> fieldErrors(result.error)]))
        ELSE Return(result.data)

\* the shaping step of operation op in module v
Shape(v, op, data, schema) ==
    IF op \in StrictOps
    THEN IF v = "lib" THEN parse(data, schema) ELSE parse001(data, schema)
    ELSE IF v = "lib" THEN parseSafe(data, schema) ELSE parseSafe001(data, schema)

(* ---------------------------------------------------------------- inputs *)

\* the (key, value) pairs a source may hold: each value under key a, a second
\* key, and a key whose name an object literal inherits
Pairs ==
    { <<"a", "1">>, <<"a", "test">>, <<"a", "">>, <<"b", "test">>,
      <<"toString", "1">> }

PairLists == UNION {[1..n -> Pairs] : n \in 0..MaxLen}

\* the entries of a FormData holding the string pairs of list e
FormEntries(e) == [i \in 1..Len(e) |-> <<e[i][1], Str(e[i][2])>>]

\* form data holding a file
FileLists == { <<<<"a", File>>>>, <<<<"a", Str("1")>>, <<"a", File>>>> }

\* route-parameter mappings: string or absent values under some of the
\* route keys
RouteMappings ==
    UNION {[ks -> {Str(x) : x \in Values} \cup {Undef}] : ks \in SUBSET RouteKeys}

Shapes ==
    { <<Field("a", "number"), Field("b", "string")>>,
      <<Field("a", "string")>>,
      <<Field("b", "number")>> }

\* a plain mapping whose field a is not a schema
MalformedShapes == { <<Field("a", "notSchema")>> }

Schemas ==
    {Descriptor(form, shape) : form \in {"shape", "instance"}, shape \in Shapes}
    \cup {Descriptor("shape", shape) : shape \in MalformedShapes}

SourcesFor(op) ==
    CASE op \in SearchOps ->
            {Container("URLSearchParams", e) : e \in PairLists}
            \cup {RequestEvent(e, <<>>, TRUE, <<>>) : e \in PairLists}
      [] op \in FormOps ->
            {Container("FormData", FormEntries(e)) : e \in PairLists}
            \cup {RequestEvent(<<>>, FormEntries(e), TRUE, <<>>) : e \in PairLists}
            \cup {RequestEvent(<<>>, <<>>, FALSE, <<>>)}
            \cup {Container("FormData", fe) : fe \in FileLists}
      [] op \in RouteOps ->
            {RawMapping(m) : m \in RouteMappings}
            \cup {RequestEvent(<<>>, <<>>, TRUE, m) : m \in RouteMappings}

(* ----------------------------------------------------------------- state *)

\* a call of operation op on (data, schema) that has not started
\* (req: the request object a wrapper stands for; read: the state of the
\* body read; adapted: the schema handed to the validator)
NewCall(op, data, schema) ==
    [op |-> op, data |-> data, schema |-> schema, pc |-> "start", req |-> 1,
     read |-> "none", entries |-> <<>>, i |-> 1, params |-> <<>>,
     target |-> Undef, adapted |-> Descriptor("none", <<>>), out |-> NoOutcome]

\* an unused call slot
Off ==
    [op |-> "none", data |-> Container("none", <<>>),
     schema |-> Descriptor("shape", <<>>), pc |-> "off", req |-> 1,
     read |-> "none", entries |-> <<>>, i |-> 1, params |-> <<>>,
     target |-> Undef, adapted |-> Descriptor("none", <<>>), out |-> NoOutcome]

Init ==
    /\ variant \in Variants
    /\ used = {}
    /\ \E op \in Ops : \E data \in SourcesFor(op) : \E schema \in Schemas :
          call = [c \in Calls |-> IF c = 1 THEN NewCall(op, data, schema) ELSE Off]

(* --------------------------------------------------------------- actions *)

\* what request.formData() rejects with: a body read before cannot be read
\* again, a fresh one fails in the transport
BodyError(read) ==
    IF read = "stale" THEN [class |-> "TypeError"] ELSE [class |-> "BodyReadError"]

\* getSearchParams, up to the loop: pick the container, params = {}
EnterSearch(c) ==
    /\ call[c].pc = "start"
    /\ call[c].op \in SearchOps
    /\ call' = [call EXCEPT ![c].entries = SearchParamsOf(call[c].data),
                            ![c].params = <<>>,
                            ![c].i = 1,
                            ![c].pc = "loop"]
    /\ UNCHANGED <<variant, used>>

\* getFormData reading the body of whatever it is given
EnterForm_AlwaysReads(c) ==
    /\ call[c].pc = "start"
    /\ call[c].op \in FormOps
    /\ call' = [call EXCEPT ![c].pc = "reading",
                            ![c].read = IF call[c].req \in used THEN "stale"
                                        ELSE "pending"]
    /\ used' = used \cup {call[c].req}
    /\ UNCHANGED variant

\* getFormData, up to the await: a FormData is used as it is, a request
\* wrapper has its body read
EnterForm(c) ==
    /\ call[c].pc = "start"
    /\ call[c].op \in FormOps
    /\ IF call[c].data.type = "FormData"
       THEN /\ call' = [call EXCEPT
                          ![c].entries = URLSearchParamsOf(call[c].data.entries),
                          ![c].params = <<>>,
                          ![c].i = 1,
                          ![c].pc = "loop"]
            /\ UNCHANGED used
       ELSE /\ call' = [call EXCEPT ![c].pc = "reading",
                                    ![c].read = IF call[c].req \in used THEN "stale"
                                                ELSE "pending"]
            /\ used' = used \cup {call[c].req}
    /\ UNCHANGED variant

\* the mapping kept in one module-level object that every call fills
BodyReadOk_SharedParams(c) ==
    /\ call[c].pc = "reading"
    /\ call[c].read = "pending"
    /\ call[c].data.bodyOk
    /\ call' = [call EXCEPT ![c].entries = URLSearchParamsOf(call[c].data.body),
                            ![c].read = "resolved",
                            ![c].params = call[3 - c].params,
                            ![c].i = 1,
                            ![c].pc = "loop"]
    /\ UNCHANGED <<variant, used>>

\* data.request.formData() resolves
BodyReadOk(c) ==
    /\ call[c].pc = "reading"
    /\ call[c].read = "pending"
    /\ call[c].data.bodyOk
    /\ call' = [call EXCEPT ![c].entries = URLSearchParamsOf(call[c].data.body),
                            ![c].read = "resolved",
                            ![c].params = <<>>,
                            ![c].i = 1,
                            ![c].pc = "loop"]
    /\ UNCHANGED <<variant, used>>

\* a failed body read caught and replaced by empty form data
BodyReadFail_Swallowed(c) ==
    /\ call[c].pc = "reading"
    /\ call[c].read = "stale" \/ ~call[c].data.bodyOk
    /\ call' = [call EXCEPT ![c].entries = <<>>,
                            ![c].read = "rejected",
                            ![c].params = <<>>,
                            ![c].i = 1,
                            ![c].pc = "loop"]
    /\ UNCHANGED <<variant, used>>

\* data.request.formData() rejects (the transport failed, or the body of
\* the request has been read before): the await rethrows
BodyReadFail(c) ==
    /\ call[c].pc = "reading"
    /\ call[c].read = "stale" \/ ~call[c].data.bodyOk
    /\ call' = [call EXCEPT ![c].out = Throw(BodyError(call[c].read)),
                            ![c].read = "rejected",
                            ![c].pc = "done"]
    /\ UNCHANGED <<variant, used>>

\* the loop deleting from its source the pair it has read
LoopStep_Consumes(c) ==
    /\ call[c].pc = "loop"
    /\ call[c].i <= Len(call[c].entries)
    /\ call' = [call EXCEPT
                  ![c].params = ParamsStep(call[c].params,
                                           call[c].entries[call[c].i][1],
                                           call[c].entries[call[c].i][2]),
                  ![c].i = call[c].i + 1,
                  ![c].data.entries = IF @ # <<>> THEN Tail(@) ELSE @,
                  ![c].data.url = IF @ # <<>> THEN Tail(@) ELSE @]
    /\ UNCHANGED <<variant, used>>

\* one iteration of for (const [key, value] of searchParams)
LoopStep(c) ==
    /\ call[c].pc = "loop"
    /\ call[c].i <= Len(call[c].entries)
    /\ call' = [call EXCEPT
                  ![c].params = ParamsStep(call[c].params,
                                           call[c].entries[call[c].i][1],
                                           call[c].entries[call[c].i][2]),
                  ![c].i = call[c].i + 1]
    /\ UNCHANGED <<variant, used>>

\* return params
LoopEnd(c) ==
    /\ call[c].pc = "loop"
    /\ call[c].i > Len(call[c].entries)
    /\ call' = [call EXCEPT ![c].target = Obj(call[c].params),
                            ![c].pc = "validate"]
    /\ UNCHANGED <<variant, used>>

\* parseRouteParams(Safe): routeParams = isRequestEvent(data) ? data.params : data
EnterRoute(c) ==
    /\ call[c].pc = "start"
    /\ call[c].op \in RouteOps
    /\ call' = [call EXCEPT ![c].target = RouteParamsOf(call[c].data),
                            ![c].pc = "validate"]
    /\ UNCHANGED <<variant, used>>

\* return parse(params, schema)
ParseStrict(c) ==
    /\ call[c].pc = "validate"
    /\ call[c].op \in StrictOps
    /\ call' = [call EXCEPT ![c].out = Shape(variant, call[c].op, call[c].target,
                                             call[c].schema),
                            ![c].adapted = getSchema(call[c].schema),
                            ![c].pc = "done"]
    /\ UNCHANGED <<variant, used>>

\* return parseSafe(params, schema)
ParseSafe(c) ==
    /\ call[c].pc = "validate"
    /\ call[c].op \in SafeOps
    /\ call' = [call EXCEPT ![c].out = Shape(variant, call[c].op, call[c].target,
                                             call[c].schema),
                            ![c].adapted = getSchema(call[c].schema),
                            ![c].pc = "done"]
    /\ UNCHANGED <<variant, used>>

Next ==
    \E c \in Calls :
        \/ EnterSearch(c)
        \/ EnterForm(c)
        \/ BodyReadOk(c)
        \/ BodyReadFail(c)
        \/ LoopStep(c)
        \/ LoopEnd(c)
        \/ EnterRoute(c)
        \/ ParseStrict(c)
        \/ ParseSafe(c)

Spec == Init /\ [][Next]_vars

\* the caller calls the same operation again, with the same source and the
\* same schema, once the first call has ended
Again ==
    /\ call[1].pc = "done"
    /\ call[2].pc = "off"
    /\ call' = [call EXCEPT ![2] = NewCall(call[1].op, call[1].data, call[1].schema)]
    /\ UNCHANGED <<variant, used>>

NextAgain == Next \/ Again

SpecAgain == Init /\ [][NextAgain]_vars

\* the pairs of the form bodies of concurrent calls
ConcPairs == { <<"a", "1">>, <<"a", "test">>, <<"b", "test">> }

ConcLists == UNION {[1..n -> ConcPairs] : n \in 0..MaxConcLen}

\* the request wrappers of concurrent calls: a body that resolves to form
\* data, or a body read that fails
ConcSources ==
    {RequestEvent(<<>>, FormEntries(e), TRUE, <<>>) : e \in ConcLists}
    \cup {RequestEvent(<<>>, <<>>, FALSE, <<>>)}

ConcSchema == Descriptor("shape", <<Field("a", "number"), Field("b", "string")>>)

\* two form operations in flight, each on its own request object
InitConc ==
    /\ variant \in Variants
    /\ used = {}
    /\ \E op1 \in FormOps, op2 \in FormOps :
       \E d1 \in ConcSources, d2 \in ConcSources :
          call = [c \in Calls |->
                    IF c = 1 THEN NewCall(op1, d1, ConcSchema)
                    ELSE [NewCall(op2, d2, ConcSchema) EXCEPT !.req = 2]]

\* the steps of the two calls in any order: each call is suspended at its
\* awaits, where the other may run
NextConc ==
    \E c \in Calls :
        \/ EnterForm(c)
        \/ BodyReadOk(c)
        \/ BodyReadFail(c)
        \/ LoopStep(c)
        \/ LoopEnd(c)
        \/ ParseStrict(c)
        \/ ParseSafe(c)

SpecConc == InitConc /\ [][NextConc]_vars

(* ------------------------------------------------- whole-call evaluation *)

\* the outcome of operation op of module v on (data, schema), the body read
\* taken as settled
RunOp(v, op, data, schema) ==
    CASE op \in SearchOps -> Shape(v, op, Obj(getSearchParams(data)), schema)
      [] op \in FormOps ->
            IF data.type = "FormData"
            THEN Shape(v, op, Obj(getFormData(data.entries)), schema)
            ELSE IF data.bodyOk
                 THEN Shape(v, op, Obj(getFormData(data.body)), schema)
                 ELSE Throw(BodyError("pending"))
      [] op \in RouteOps -> Shape(v, op, RouteParamsOf(data), schema)

(* ------------------------------------------------------ claim vocabulary *)

\* the call has built its canonical mapping (the loop of getSearchParams
\* has ended)
Built(c) ==
    /\ call[c].op \in SearchOps \cup FormOps
    /\ call[c].pc \in {"validate", "done"}
    /\ call[c].target.t = "object"

\* the values of key k in a list of pairs, in source order
ValuesOfKey(entries, k) ==
    LET sel == SelectSeq(entries, LAMBDA p : p[1] = k)
    IN  [i \in 1..Len(sel) |-> Str(sel[i][2])]

\* the call has run the validator on its canonical input and the validator
\* has given its verdict
Validated(c) ==
    /\ call[c].pc = "done"
    /\ call[c].target.t # "undefined"
    /\ ~Malformed(call[c].schema.shape)

\* the validator's verdict on the call's canonical input, for the
\* object-schema over the descriptor's fields
Verdict(c) == safeParse(zobject(call[c].schema.shape), call[c].target)

\* C1: for every key that occurs two or more times in the source pairs, the
\* mapping built by getSearchParams holds the sequence of all values of that
\* key, one per occurrence, in source order (empty strings included).
C1_RepeatedKeyKeepsAllValues ==
    \A c \in Calls :
        Built(c) =>
            \A k \in Keys :
                Len(ValuesOfKey(call[c].entries, k)) >= 2 =>
                    /\ k \in DOMAIN call[c].params
                    /\ call[c].params[k] = Arr(ValuesOfKey(call[c].entries, k))

\* C2: for every key that occurs exactly once in the source pairs (inherited
\* names such as toString included), the mapping built by getSearchParams
\* holds exactly the single source string.
C2_SingleKeyKeepsString ==
    \A c \in Calls :
        Built(c) =>
            \A k \in Keys :
                Len(ValuesOfKey(call[c].entries, k)) = 1 =>
                    /\ k \in DOMAIN call[c].params
                    /\ call[c].params[k] = ValuesOfKey(call[c].entries, k)[1]

\* the payload a raised 400 error carries (HttpError: body, ActionFailure: data)
Payload(e) == IF e.class = "HttpError" THEN e.body ELSE e.data

\* the errors map of a raised 400 error
ErrorsOf(e) == Payload(e).errors

\* the field-error map of a safe failure result
FieldErrorMap(r) ==
    IF "errors" \in DOMAIN r THEN r.errors ELSE fieldErrors(r.error)

\* the strict / safe operation of the same kind
StrictOf(op) ==
    CASE op \in SearchOps -> "parseSearchParams"
      [] op \in FormOps -> "parseFormData"
      [] op \in RouteOps -> "parseRouteParams"

SafeOf(op) ==
    CASE op \in SearchOps -> "parseSearchParamsSafe"
      [] op \in FormOps -> "parseFormDataSafe"
      [] op \in RouteOps -> "parseRouteParamsSafe"

\* the call is a strict / safe operation whose input the schema rejects
StrictRejected(c) ==
    Validated(c) /\ call[c].op \in StrictOps /\ ~Verdict(c).success

SafeRejected(c) ==
    Validated(c) /\ call[c].op \in SafeOps /\ ~Verdict(c).success

\* a raised 400 error
Is400(o) ==
    /\ o.kind = "throw"
    /\ o.value.class \in {"HttpError", "ActionFailure"}
    /\ o.value.status = 400

\* C3: on an input the schema rejects, a strict operation returns no value
\* and raises an error with status 400 whose errors map is the validator's
\* flattened per-field errors for that input.
C3_StrictRaises400 ==
    \A c \in Calls :
        StrictRejected(c) =>
            /\ Is400(call[c].out)
            /\ ErrorsOf(call[c].out.value) = fieldErrors(Verdict(c).error)

\* a strict operation has raised the 400 error of the test suite's example
C3_Witness ==
    \E c \in Calls :
        /\ StrictRejected(c)
        /\ Is400(call[c].out)
        /\ ErrorsOf(call[c].out.value) = [a |-> <<"Expected number, received nan">>]

\* C4: on an input the schema rejects, a safe operation does not raise and
\* returns a result tagged success = FALSE whose field-error map is the map
\* the strict operation of the same kind raises for the same input and schema.
C4_SafeFailureMatchesStrict ==
    \A c \in Calls :
        SafeRejected(c) =>
            LET strict == RunOp(variant, StrictOf(call[c].op), call[c].data,
                                call[c].schema)
            IN  /\ call[c].out.kind = "return"
                /\ call[c].out.value.success = FALSE
                /\ Is400(strict)
                /\ FieldErrorMap(call[c].out.value) = ErrorsOf(strict.value)

\* a safe operation has returned a failure with errors on two fields
C4_Witness ==
    \E c \in Calls :
        /\ SafeRejected(c)
        /\ call[c].out.kind = "return"
        /\ DOMAIN FieldErrorMap(call[c].out.value) = {"a", "b"}

\* the call is an operation whose input the schema accepts
Accepted(c) == Validated(c) /\ Verdict(c).success

\* C5: on an input the schema accepts, the safe operation returns exactly
\* {success: TRUE, data: v}, the strict operation of the same kind does not
\* raise, and v is the value the strict operation returns.
C5_SafeSuccessEqualsStrict ==
    \A c \in Calls :
        Accepted(c) =>
            LET strict == RunOp(variant, StrictOf(call[c].op), call[c].data,
                                call[c].schema)
                safe == RunOp(variant, SafeOf(call[c].op), call[c].data,
                              call[c].schema)
                own == call[c].out
            IN  /\ own.kind = "return"
                /\ strict.kind = "return"
                /\ safe.kind = "return"
                /\ DOMAIN safe.value = {"success", "data"}
                /\ safe.value.success = TRUE
                /\ safe.value.data = strict.value
                /\ call[c].op \in SafeOps =>
                      /\ DOMAIN own.value = {"success", "data"}
                      /\ own.value.success = TRUE
                      /\ own.value.data = strict.value
                /\ call[c].op \in StrictOps =>
                      /\ DOMAIN own.value = ShapeNames(call[c].schema.shape)
                      /\ own.value = safe.value.data

\* a safe operation has returned the parsed value {a: 1, b: "test"}
C5_Witness ==
    \E c \in Calls :
        /\ Accepted(c)
        /\ call[c].op \in SafeOps
        /\ call[c].out.kind = "return"
        /\ call[c].out.value.success = TRUE
        /\ call[c].out.value.data = [a |-> Num(1), b |-> Str("test")]

\* C6: the payload of the 400 error a strict operation raises on validation
\* failure is carried under the attribute data and has exactly one field,
\* errors.
C6_PayloadOnlyErrors ==
    \A c \in Calls :
        StrictRejected(c) =>
            /\ Is400(call[c].out)
            /\ "data" \in DOMAIN call[c].out.value
            /\ DOMAIN Payload(call[c].out.value) = {"errors"}

\* the fields of the input that fail their field schema
FailingFields(c) ==
    {nm \in ShapeNames(call[c].schema.shape) :
        FieldIssues(ShapeField(call[c].schema.shape, nm),
                    Get(call[c].target.o, nm)) # <<>>}

\* C7: when validation fails, a safe operation returns {success: FALSE,
\* error: E}, E the validator's error object, whose issues list has one entry
\* per failing field, with the field's name as first path element.
C7_SafeFailureCarriesZodError ==
    \A c \in Calls :
        SafeRejected(c) =>
            /\ call[c].out.kind = "return"
            /\ DOMAIN call[c].out.value = {"success", "error"}
            /\ call[c].out.value.success = FALSE
            /\ LET issues == call[c].out.value.error.issues
               IN  /\ Len(issues) = Cardinality(FailingFields(c))
                   /\ {issues[i].path[1] : i \in 1..Len(issues)} = FailingFields(c)

\* the same fields passed in the other form (plain mapping / object-schema)
OtherForm(schema) ==
    Descriptor(IF schema.form = "shape" THEN "instance" ELSE "shape", schema.shape)

\* C8: every operation gives the same outcome when the schema is passed as a
\* plain mapping of fields as when it is passed as an object-schema built
\* over the same fields.
C8_SchemaFormsAgree ==
    \A c \in Calls :
        call[c].pc = "done" =>
            LET other == RunOp(variant, call[c].op, call[c].data,
                               OtherForm(call[c].schema))
            IN  /\ call[c].out.kind = other.kind
                /\ call[c].out.value = other.value

\* an operation given a plain mapping of fields has returned a value
C8_Witness ==
    \E c \in Calls :
        /\ Accepted(c)
        /\ call[c].schema.form = "shape"
        /\ Len(call[c].schema.shape) = 2
        /\ call[c].out.kind = "return"

\* the route source passed the other way (plain mapping / request wrapper)
OtherRoute(data) ==
    IF data.type = "Object"
    THEN RequestEvent(<<>>, <<>>, TRUE, data.props)
    ELSE RawMapping(data.params)

\* C9: parseRouteParams and parseRouteParamsSafe give the same outcome for a
\* mapping m passed directly as for a request wrapper whose params is m.
C9_RouteWrapperAgrees ==
    \A c \in Calls :
        (call[c].pc = "done" /\ call[c].op \in RouteOps) =>
            LET other == RunOp(variant, call[c].op, OtherRoute(call[c].data),
                               call[c].schema)
            IN  /\ call[c].out.kind = other.kind
                /\ call[c].out.value = other.value

\* a route operation given a plain mapping with a parameter named params has
\* returned a parsed value
C9_Witness ==
    \E c \in Calls :
        /\ Accepted(c)
        /\ call[c].op \in RouteOps
        /\ call[c].data.type = "Object"
        /\ "params" \in DOMAIN call[c].data.props
        /\ call[c].out.kind = "return"

\* the form data a form source holds
FormSource(data) == IF data.type = "FormData" THEN data.entries ELSE data.body

\* the form data holds string values only
AllStrings(fe) == \A i \in 1..Len(fe) : fe[i][2].t = "string"

\* the (key, string) pairs of form data
StringPairs(fe) == [i \in 1..Len(fe) |-> <<fe[i][1], fe[i][2].s>>]

\* C10: a form operation on form data holding a list of string pairs yields,
\* once settled, the same canonical mapping and the same outcome as the
\* query-string operation of the same kind on the same pairs in the same
\* order.
C10_FormEqualsSearch ==
    \A c \in Calls :
        (Validated(c) /\ call[c].op \in FormOps
            /\ AllStrings(FormSource(call[c].data))) =>
            LET query == Container("URLSearchParams",
                                   StringPairs(FormSource(call[c].data)))
                other == RunOp(variant,
                               IF call[c].op \in StrictOps THEN "parseSearchParams"
                               ELSE "parseSearchParamsSafe",
                               query, call[c].schema)
            IN  /\ call[c].params = getSearchParams(query)
                /\ call[c].out.kind = other.kind
                /\ call[c].out.value = other.value

\* a form operation has settled on form data in which a key repeats
C10_Witness ==
    \E c \in Calls :
        /\ Validated(c)
        /\ call[c].op \in FormOps
        /\ AllStrings(FormSource(call[c].data))
        /\ \E k \in DOMAIN call[c].params : call[c].params[k].t = "array"

\* the query-string or form source passed the other way (raw container /
\* request wrapper carrying it)
OtherSource(op, data) ==
    CASE data.type = "URLSearchParams" -> RequestEvent(data.entries, <<>>, TRUE, <<>>)
      [] data.type = "FormData" -> RequestEvent(<<>>, data.entries, TRUE, <<>>)
      [] data.type = "RequestEvent" /\ op \in SearchOps ->
            Container("URLSearchParams", data.url)
      [] data.type = "RequestEvent" /\ op \in FormOps ->
            Container("FormData", data.body)

\* C11: parseSearchParams(Safe) and parseFormData(Safe) give the same outcome
\* for a request wrapper as for the raw container the wrapper carries (its
\* url.searchParams, the form data its request.formData() resolves to); and
\* for a raw FormData the body read is never invoked.
C11_WrapperEqualsContainer ==
    \A c \in Calls :
        call[c].op \in SearchOps \cup FormOps =>
            /\ (call[c].pc = "done" /\ call[c].read \in {"none", "resolved"}) =>
                  LET other == RunOp(variant, call[c].op,
                                     OtherSource(call[c].op, call[c].data),
                                     call[c].schema)
                  IN  /\ call[c].out.kind = other.kind
                      /\ call[c].out.value = other.value
            /\ call[c].data.type = "FormData" =>
                  /\ call[c].read = "none"
                  /\ call[c].pc # "reading"
                  /\ call[c].req \notin used

\* a form operation given a raw FormData has returned without a body read
C11_Witness ==
    \E c \in Calls :
        /\ call[c].op \in FormOps
        /\ call[c].data.type = "FormData"
        /\ Len(call[c].data.entries) = 2
        /\ call[c].pc = "done"
        /\ call[c].read = "none"
        /\ call[c].out.kind = "return"

\* C12: in parseFormData(Safe) called with a request wrapper, normalization
\* and validation start only after the body read has completed; if the body
\* read fails, the validator is never invoked, no success or failure result
\* is produced, and the call ends by raising the body-read error itself (from
\* the safe operation too).
C12_BodyReadGatesValidation ==
    \A c \in Calls :
        (call[c].op \in FormOps /\ call[c].data.type = "RequestEvent") =>
            /\ call[c].read \in {"none", "pending", "stale"} =>
                  /\ call[c].pc \in {"start", "reading"}
                  /\ call[c].entries = <<>>
                  /\ call[c].params = <<>>
                  /\ call[c].i = 1
                  /\ call[c].target.t = "undefined"
                  /\ call[c].adapted.form = "none"
                  /\ call[c].out.kind = "none"
            /\ (call[c].pc \in {"loop", "validate"} \/ call[c].target.t # "undefined") =>
                  call[c].read = "resolved"
            /\ call[c].read = "rejected" =>
                  /\ call[c].pc = "done"
                  /\ call[c].target.t = "undefined"
                  /\ call[c].adapted.form = "none"
                  /\ call[c].out.kind = "throw"
                  /\ DOMAIN call[c].out.value = {"class"}
                  /\ call[c].out.value.class \in {"BodyReadError", "TypeError"}
                  /\ call[c].out.value.class = "BodyReadError" => ~call[c].data.bodyOk

\* the safe form operation has ended by raising the body-read error
C12_Witness ==
    \E c \in Calls :
        /\ call[c].op = "parseFormDataSafe"
        /\ call[c].data.type = "RequestEvent"
        /\ call[c].read = "rejected"
        /\ call[c].pc = "done"
        /\ call[c].out.kind = "throw"
        /\ call[c].out.value.class = "BodyReadError"

\* C13 as stated: after a call, the source and the schema are unchanged, and
\* the same operation called again with the same source and schema yields
\* the same outcome as the first call.
C13_RepeatedCallSameOutcome ==
    call[2].pc = "done" =>
        /\ call[2].data = call[1].data
        /\ call[2].schema = call[1].schema
        /\ call[2].out.kind = call[1].out.kind
        /\ call[2].out.value = call[1].out.value

\* C13 amended: ... the same outcome as the first call, except for a form
\* operation on a request wrapper: the first call has read the body of the
\* request, and the second call ends by raising the error of its body read.
C13_RepeatedCallSameOutcomeUnlessBodyRead ==
    call[2].pc = "done" =>
        /\ call[2].data = call[1].data
        /\ call[2].schema = call[1].schema
        /\ IF call[2].op \in FormOps /\ call[2].data.type = "RequestEvent"
           THEN /\ call[2].out.kind = "throw"
                /\ call[2].out.value.class = "TypeError"
                /\ call[2].target.t = "undefined"
           ELSE /\ call[2].out.kind = call[1].out.kind
                /\ call[2].out.value = call[1].out.value

\* a query-string operation called a second time has returned a value built
\* from a repeated key
C13_Witness ==
    /\ call[2].pc = "done"
    /\ call[2].op \in SearchOps
    /\ call[2].out.kind = "return"
    /\ \E k \in DOMAIN call[2].params : call[2].params[k].t = "array"

\* the pairs a form call iterates once its body is read
OwnEntries(c) == URLSearchParamsOf(call[c].data.body)

\* C14: two form calls on different request objects whose body reads complete
\* in any order each build their own canonical mapping, from their own pairs
\* only, and each returns the outcome it would return if run alone.
C14_ConcurrentCallsIndependent ==
    \A c \in Calls :
        /\ call[c].read \in {"none", "pending"} =>
              call[c].entries = <<>> /\ call[c].params = <<>>
        /\ call[c].read = "resolved" =>
              /\ call[c].entries = OwnEntries(c)
              /\ call[c].params =
                    ParamsFold(<<>>, SubSeq(OwnEntries(c), 1, call[c].i - 1), 1)
        /\ call[c].target.t # "undefined" =>
              call[c].target = Obj(getFormData(call[c].data.body))
        /\ call[c].pc = "done" =>
              LET alone == RunOp(variant, call[c].op, call[c].data, call[c].schema)
              IN  /\ call[c].out.kind = alone.kind
                  /\ call[c].out.value = alone.value

\* two calls on different form bodies have both returned, the first after the
\* second had read its body
C14_Witness ==
    /\ call[1].pc = "done"
    /\ call[2].pc = "done"
    /\ call[1].req # call[2].req
    /\ call[1].data.body # call[2].data.body
    /\ Len(call[1].data.body) = 2
    /\ Len(call[2].data.body) = 2
    /\ call[1].out.kind = "return"
    /\ call[2].out.kind = "return"

\* the pairs getSearchParams has processed so far
Seen(c) == SubSeq(call[c].entries, 1, call[c].i - 1)

\* a mapping value is one string, or a sequence of at least two strings
IsStringOrStrings(v) ==
    \/ v.t = "string"
    \/ /\ IsArray(v)
       /\ Len(v.a) >= 2
       /\ \A j \in 1..Len(v.a) : v.a[j].t = "string"

\* C15: after getSearchParams has processed any prefix of the source pairs,
\* the keys of the mapping under construction are exactly the keys seen so
\* far, each once, and each value is a single string or a sequence of at
\* least two strings.
C15_LoopPrefixInvariant ==
    \A c \in Calls :
        (call[c].op \in SearchOps \cup FormOps /\ call[c].pc = "loop") =>
            /\ DOMAIN call[c].params = {Seen(c)[j][1] : j \in 1..Len(Seen(c))}
            /\ \A k \in DOMAIN call[c].params : IsStringOrStrings(call[c].params[k])

\* a safe operation of src/lib/parsers.ts has returned a result
LibSafeReturned(c) ==
    /\ variant = "lib"
    /\ call[c].op \in SafeOps
    /\ call[c].pc = "done"
    /\ call[c].out.kind = "return"

RouteChosen(c) ==
    /\ call[c].op \in RouteOps
    /\ call[c].pc \in {"validate", "done"}

\* C17: isRequestEvent classifies every flat mapping of string-or-absent
\* values as a raw mapping, one with a parameter named params included, and
\* every value whose params attribute is an object as a wrapper; a route
\* operation validates a raw mapping as itself and a wrapper's params.
C17_RawMappingValidatedAsItself ==
    \A c \in Calls :
        RouteChosen(c) =>
            IF call[c].data.type = "Object"
            THEN /\ ~isRequestEvent(call[c].data)
                 /\ call[c].target = Obj(call[c].data.props)
            ELSE /\ isRequestEvent(call[c].data)
                 /\ call[c].target = Obj(call[c].data.params)

\* a route operation has validated, as itself, a raw mapping whose parameter
\* named params holds a nonempty string
C17_Witness ==
    \E c \in Calls :
        /\ RouteChosen(c)
        /\ call[c].pc = "done"
        /\ call[c].data.type = "Object"
        /\ "params" \in DOMAIN call[c].data.props
        /\ Truthy(call[c].data.props["params"])
        /\ call[c].target = Obj(call[c].data.props)

\* the set of (name, field schema) bindings of a list of fields
Bindings(shape) == {shape[j] : j \in 1..Len(shape)}

\* C18: getSchema returns a schema instance unchanged; a plain mapping it
\* wraps into an object-schema whose fields are exactly the mapping's keys,
\* each bound to the supplied field schema; and getSchema of its own result
\* is that result.
C18_GetSchemaAdapts ==
    \A c \in Calls :
        call[c].pc = "done" /\ call[c].adapted.form # "none" =>
            /\ IsZodType(call[c].schema) => call[c].adapted = call[c].schema
            /\ ~IsZodType(call[c].schema) =>
                  /\ IsZodType(call[c].adapted)
                  /\ ShapeNames(call[c].adapted.shape) = ShapeNames(call[c].schema.shape)
                  /\ Bindings(call[c].adapted.shape) = Bindings(call[c].schema.shape)
            /\ getSchema(call[c].adapted) = call[c].adapted

\* a call given a plain mapping of two fields has validated against the
\* object-schema getSchema built
C18_Witness ==
    \E c \in Calls :
        /\ call[c].pc = "done"
        /\ ~IsZodType(call[c].schema)
        /\ Len(call[c].schema.shape) = 2
        /\ IsZodType(call[c].adapted)

\* the call has run the validator with a plain mapping that holds a value
\* that is not a schema
MalformedValidated(c) ==
    /\ call[c].pc = "done"
    /\ call[c].target.t = "object"
    /\ ~IsZodType(call[c].schema)
    /\ Malformed(call[c].schema.shape)

\* C19: when the schema descriptor is a plain mapping with a non-schema
\* value, strict and safe operations alike end by raising the error the
\* validator raised, unchanged: no 400 error, no success = FALSE result, no
\* success result.
C19_MalformedSchemaErrorPropagates ==
    \A c \in Calls :
        MalformedValidated(c) =>
            /\ call[c].out.kind = "throw"
            /\ call[c].out.value = Validate(call[c].adapted, call[c].target).value
            /\ call[c].out.value.class = "TypeError"
            /\ ~Is400(call[c].out)

\* a safe operation given a malformed mapping has ended by raising the
\* validator's error
C19_Witness ==
    \E c \in Calls :
        /\ MalformedValidated(c)
        /\ call[c].op \in SafeOps
        /\ call[c].out.kind = "throw"
        /\ call[c].out.value.class = "TypeError"

\* the other historical variant
OtherVariant == IF variant = "lib" THEN "part_001" ELSE "lib"

\* C20: the two variants agree on every source and schema: on success the
\* strict operations return the same value and the safe operations the same
\* {success: TRUE, data}; on validation failure the strict operations of both
\* raise an error of status 400 with the same errors map and the same fields.
C20_VariantsEquivalent ==
    \A c \in Calls :
        Validated(c) =>
            LET mine == call[c].out
                other == RunOp(OtherVariant, call[c].op, call[c].data, call[c].schema)
            IN  /\ Accepted(c) =>
                      /\ mine.kind = "return"
                      /\ other.kind = "return"
                      /\ mine.value = other.value
                /\ StrictRejected(c) =>
                      /\ Is400(mine)
                      /\ Is400(other)
                      /\ ErrorsOf(mine.value) = ErrorsOf(other.value)
                      /\ DOMAIN Payload(mine.value) = DOMAIN Payload(other.value)

====
